---- MODULE Spec2Model ----
(***************************************************************************)
(* Model of dump-src (src/misc_tools/dump_src.py): one run of main() over  *)
(* a small file tree.  Strings are tuples of one-character strings, so     *)
(* that prefixes, extensions, case and ordering are computed, not assumed. *)
(* A path is the tuple of its pathlib parts; an absolute path starts with  *)
(* the anchor part <<"/">>.                                                *)
(***************************************************************************)
EXTENDS Naturals, Sequences, FiniteSets

(* ------------------------------------------------------------------ *)
(* Strings                                                            *)
(* ------------------------------------------------------------------ *)

\* The characters the model's strings use, in code-point order.
Alphabet ==
    << " ", ",", ".", "/", "2", "P", "Y", "a", "b", "c", "d", "e", "h", "j",
       "k", "l", "m", "n", "o", "p", "r", "s", "t", "u", "w", "x", "y", "z" >>

Ord(ch) == CHOOSE k \in 1..Len(Alphabet) : Alphabet[k] = ch

UpperLetters ==
    << "A", "B", "C", "D", "E", "F", "G", "H", "I", "J", "K", "L", "M",
       "N", "O", "P", "Q", "R", "S", "T", "U", "V", "W", "X", "Y", "Z" >>

LowerLetters ==
    << "a", "b", "c", "d", "e", "f", "g", "h", "i", "j", "k", "l", "m",
       "n", "o", "p", "q", "r", "s", "t", "u", "v", "w", "x", "y", "z" >>

\* str.lower() on one character.
LowerChar(ch) ==
    IF \E k \in 1..26 : UpperLetters[k] = ch
    THEN LowerLetters[CHOOSE k \in 1..26 : UpperLetters[k] = ch]
    ELSE ch

\* str.lower()
Lower(s) == [k \in 1..Len(s) |-> LowerChar(s[k])]

\* str.startswith
StartsWith(s, pre) ==
    /\ Len(pre) <= Len(s)
    /\ \A k \in 1..Len(pre) : s[k] = pre[k]

EndsWith(s, post) ==
    /\ Len(post) <= Len(s)
    /\ \A k \in 1..Len(post) : s[Len(s) - Len(post) + k] = post[k]

\* Python's < on str: by code point, a proper prefix first.
StrLess(s, t) ==
    \E k \in 1..(Len(t)) :
        /\ k <= Len(s) + 1
        /\ \A m \in 1..(k - 1) : s[m] = t[m]
        /\ \/ k = Len(s) + 1
           \/ (k <= Len(s) /\ Ord(s[k]) < Ord(t[k]))

\* str.strip() for the blank character.
RECURSIVE LStrip(_)
LStrip(s) == IF s # <<>> /\ Head(s) = " " THEN LStrip(Tail(s)) ELSE s

RECURSIVE RStrip(_)
RStrip(s) ==
    IF s # <<>> /\ s[Len(s)] = " " THEN RStrip(SubSeq(s, 1, Len(s) - 1)) ELSE s

Strip(s) == RStrip(LStrip(s))

\* str.split(sep) for a one-character separator: always at least one piece.
RECURSIVE Split(_, _)
Split(s, sep) ==
    IF \E k \in 1..Len(s) : s[k] = sep
    THEN LET k == CHOOSE k \in 1..Len(s) :
                      s[k] = sep /\ \A m \in 1..(k - 1) : s[m] # sep
         IN  <<SubSeq(s, 1, k - 1)>> \o Split(SubSeq(s, k + 1, Len(s)), sep)
    ELSE <<s>>

\* Index of the last "." of a name, 0 when there is none (str.rfind + 1).
RFindDot(name) ==
    IF \E k \in 1..Len(name) : name[k] = "."
    THEN CHOOSE k \in 1..Len(name) :
             name[k] = "." /\ \A m \in (k + 1)..Len(name) : name[m] # "."
    ELSE 0

(* ------------------------------------------------------------------ *)
(* pathlib                                                            *)
(* ------------------------------------------------------------------ *)

Anchor == <<"/">>
DotDot == <<".", ".">>

RECURSIVE DropCurDir(_)
DropCurDir(comps) ==
    IF comps = <<>> THEN <<>>
    ELSE IF Head(comps) = <<>> \/ Head(comps) = <<".">>
         THEN DropCurDir(Tail(comps))
         ELSE <<Head(comps)>> \o DropCurDir(Tail(comps))

RECURSIVE DropEmpty(_)
DropEmpty(comps) ==
    IF comps = <<>> THEN <<>>
    ELSE IF Head(comps) = <<>> THEN DropEmpty(Tail(comps))
         ELSE <<Head(comps)>> \o DropEmpty(Tail(comps))

\* Variant: the path keeps its "." components, as joining strings would.
PathOf_KeepCurDir(raw) ==
    IF raw # <<>> /\ Head(raw) = "/"
    THEN <<Anchor>> \o DropEmpty(Split(raw, "/"))
    ELSE DropEmpty(Split(raw, "/"))

\* Path(raw).parts: split at "/", drop empty and "." components, keep "..".
PathOf(raw) ==
    IF raw # <<>> /\ Head(raw) = "/"
    THEN <<Anchor>> \o DropCurDir(Split(raw, "/"))
    ELSE DropCurDir(Split(raw, "/"))

IsAbsolute(path) == path # <<>> /\ Head(path) = Anchor

\* path.name
Name(path) ==
    IF path = <<>> \/ path = <<Anchor>> THEN <<>> ELSE path[Len(path)]

\* path.suffix: from the last dot, unless the dot is first or last in the name.
Suffix(path) ==
    LET name == Name(path)
        k    == RFindDot(name)
    IN  IF 1 < k /\ k < Len(name) THEN SubSeq(name, k, Len(name)) ELSE <<>>

\* path.suffix[1:].lower()
ActualSuffix(path) ==
    LET suf == Suffix(path)
    IN  Lower(SubSeq(suf, 2, Len(suf)))

\* The working directory of the run.
Cwd == << Anchor, <<"w">>, <<"p">> >>

RECURSIVE CollapseDotDot(_, _)
CollapseDotDot(done, rest) ==
    IF rest = <<>> THEN done
    ELSE IF Head(rest) = <<".">> THEN CollapseDotDot(done, Tail(rest))
    ELSE IF Head(rest) = DotDot
         THEN CollapseDotDot(IF Len(done) > 1
                               THEN SubSeq(done, 1, Len(done) - 1)
                               ELSE done,
                             Tail(rest))
         ELSE CollapseDotDot(Append(done, Head(rest)), Tail(rest))

\* path.resolve() when it returns: absolute, "." dropped, ".." collapsed.  The tree has no
\* symbolic link that leads anywhere, so nothing else is rewritten.
Resolve(path) ==
    IF IsAbsolute(path)
    THEN CollapseDotDot(<<Anchor>>, Tail(path))
    ELSE CollapseDotDot(Cwd, path)

\* q is p or lies under p, part by part: what relative_to accepts.
IsPartsPrefix(p, q) ==
    /\ Len(p) <= Len(q)
    /\ \A k \in 1..Len(p) : q[k] = p[k]

\* Path.__lt__: the parts compared as lists of strings.
PathLess(p, q) ==
    \E k \in 1..Len(q) :
        /\ k <= Len(p) + 1
        /\ \A m \in 1..(k - 1) : p[m] = q[m]
        /\ \/ k = Len(p) + 1
           \/ (k <= Len(p) /\ StrLess(p[k], q[k]))

\* sorted(set(...)) of paths.
RECURSIVE SortPaths(_)
SortPaths(S) ==
    IF S = {} THEN <<>>
    ELSE LET least == CHOOSE p \in S : \A q \in S \ {p} : PathLess(p, q)
         IN  <<least>> \o SortPaths(S \ {least})

(* ------------------------------------------------------------------ *)
(* The file tree and the command lines                                *)
(* ------------------------------------------------------------------ *)

\* File and directory names of the tree.
n_w     == <<"w">>
n_p     == <<"p">>
n_a_py  == <<"a", ".", "p", "y">>
n_b_PY  == <<"b", ".", "P", "Y">>
n_z_u   == <<"z", ".", "u">>
n_x_db  == <<"x", ".", "d", "b">>
n_k_js  == <<"k", ".", "j", "s">>
n_r_c   == <<"r", ".", "c">>
n_dot_h == <<".", "h">>
n_c_py  == <<"c", ".", "p", "y">>
n_e_py  == <<".", "e", ".", "p", "y">>
n_bd    == <<"b", "d">>
n_bd2   == <<"b", "d", "2">>
n_m_py  == <<"m", ".", "p", "y">>
n_x_py  == <<"x", ".", "p", "y">>
n_lp    == <<"l", "p">>
n_o_txt == <<"o", ".", "t", "x", "t">>

Entry(path, kind, content) == [path |-> path, kind |-> kind, content |-> content]

\* The tree before the run.  content: "text" decodes, "binary" does not
\* (UnicodeDecodeError), "noperm" cannot be opened (PermissionError).
\* lp is a symbolic link to itself.
BaseTree ==
    { Entry(<<Anchor>>, "dir", "none"),
      Entry(<<Anchor, n_w>>, "dir", "none"),
      Entry(Cwd, "dir", "none"),
      Entry(Cwd \o <<n_a_py>>, "file", "text"),
      Entry(Cwd \o <<n_b_PY>>, "file", "text"),
      Entry(Cwd \o <<n_z_u>>, "file", "text"),
      Entry(Cwd \o <<n_x_db>>, "file", "text"),
      Entry(Cwd \o <<n_k_js>>, "file", "binary"),
      Entry(Cwd \o <<n_r_c>>, "file", "noperm"),
      Entry(Cwd \o <<n_e_py>>, "file", "text"),
      Entry(Cwd \o <<n_dot_h>>, "dir", "none"),
      Entry(Cwd \o <<n_dot_h, n_c_py>>, "file", "text"),
      Entry(Cwd \o <<n_bd>>, "dir", "none"),
      Entry(Cwd \o <<n_bd, n_m_py>>, "file", "text"),
      Entry(Cwd \o <<n_bd2>>, "dir", "none"),
      Entry(Cwd \o <<n_bd2, n_x_py>>, "file", "text"),
      Entry(Cwd \o <<n_lp>>, "loop", "none") }

\* SOURCE_PATH arguments, as typed.
RootArgs ==
    { <<".">>,                                        \* .
      <<".", ".">>,                                   \* ..
      <<".", "h", "/", "c", ".", "p", "y">>,          \* .h/c.py
      <<"b", "d", "/", "m", ".", "p", "y">>,          \* bd/m.py
      <<".", "/", "b", "d", "2">>,                    \* ./bd2
      <<"o", ".", "t", "x", "t">>,                    \* o.txt
      <<"n", "o">> }                                  \* no (does not exist)

\* --suffix arguments, as typed; <<>> is an absent option.
SuffixArgs ==
    { <<>>,
      <<"p", "y">>,                                   \* py
      <<"P", "Y">>,                                   \* PY
      <<"p", "y", ",", " ", "u", ",", "p", "y">> }    \* py, u,py

\* -x arguments, as typed, one list per command line.
ExcludeArgs ==
    { <<>>,
      << <<"b", "d">> >>,                             \* -x bd
      << <<"a", ".", "p", "y">>,
         <<".", ".", "/", "p", "/", "b", "d">> >> }   \* -x a.py -x ../p/bd

\* -o arguments, as typed; <<>> is an absent option.
OutputArgs ==
    { <<>>,
      <<"o", ".", "t", "x", "t">>,                    \* o.txt
      <<"n", "o", "/", "o", ".", "t", "x", "t">> }    \* no/o.txt

\* The most SOURCE_PATH arguments of one command line.
MaxRoots == 2

RECURSIVE SeqsUpTo(_, _)
SeqsUpTo(S, n) ==
    IF n = 0 THEN {<<>>}
    ELSE LET shorter == SeqsUpTo(S, n - 1)
         IN  shorter \cup {Append(q, x) : q \in {r \in shorter : Len(r) = n - 1}, x \in S}

(* ------------------------------------------------------------------ *)
(* State                                                              *)
(* ------------------------------------------------------------------ *)

VARIABLES
    args,            \* the parsed command line: srcs, suffix, excludes, output
    loop_raises,     \* does this interpreter's resolve() raise on a link loop:
                     \* "unset" until the first loop is resolved, then "yes" or "no"
    pc,              \* "start", "root", "files", "finally", "done"
    srcs,            \* args.srcs after the default is applied
    suffixes,        \* list of stripped suffixes
    exclude_paths,   \* list of resolved paths
    output_path,     \* resolved output path, <<>> for None
    output_file,     \* "none", "open", "closed"
    stdout,          \* what sys.stdout is bound to: "orig" or "file"
    created,         \* the output file exists on disk
    i,               \* index of the current root in srcs
    files,           \* candidates of the current root
    j,               \* index of the current candidate in files
    sink,            \* lines printed to sys.stdout, each tagged with its candidate
    diag,            \* lines printed to sys.stderr, each tagged with its candidate
    hist,            \* history: what happened to each candidate, in order
    opens,           \* history: number of open() calls on the output file
    redirected,      \* history: sys.stdout was bound to the file at some point
    escaped,         \* an exception left the loop and is propagating
    exit_code        \* the process's exit status, once pc = "done"

vars ==
    << args, loop_raises, pc, srcs, suffixes, exclude_paths, output_path,
       output_file, stdout, created, i, files, j, sink, diag, hist, opens,
       redirected, escaped, exit_code >>

\* What is on disk now: the tree, and the output file once it is opened.
Disk ==
    BaseTree \cup
    (IF created THEN {Entry(output_path, "file", "text")} ELSE {})

KindOf(path) ==
    LET at == Resolve(path)
    IN  IF \E e \in Disk : e.path = at
        THEN (CHOOSE e \in Disk : e.path = at).kind
        ELSE "missing"

ContentOf(path) ==
    (CHOOSE e \in Disk : e.path = Resolve(path)).content

\* path.is_file() / path.is_dir(): False for a link loop and for a missing path.
IsFile(path) == KindOf(path) = "file"
IsDir(path) == KindOf(path) = "dir"

\* What resolve() may do with this path.  On a link to itself it raises
\* RuntimeError("Symlink loop ...") in some interpreters and returns the path
\* in the others; one run has one interpreter.
ResolveBehaviours(path) ==
    IF KindOf(path) # "loop" THEN {loop_raises}
    ELSE IF loop_raises = "unset" THEN {"yes", "no"}
    ELSE {loop_raises}

ResolveRaises(path, behaviour) == KindOf(path) = "loop" /\ behaviour = "yes"

(* ------------------------------------------------------------------ *)
(* is_excluded                                                        *)
(* ------------------------------------------------------------------ *)

\* The path as str() prints it, for the string comparison of the variant below.
RECURSIVE JoinParts(_)
JoinParts(path) ==
    IF path = <<>> THEN <<>>
    ELSE IF Len(path) = 1 \/ Head(path) = Anchor
         THEN Head(path) \o JoinParts(Tail(path))
         ELSE Head(path) \o <<"/">> \o JoinParts(Tail(path))

\* Variant: descendants found by comparing the printed paths as strings.
IsExcluded_StringPrefix(path, excl) ==
    \E k \in 1..Len(excl) :
        StartsWith(JoinParts(Resolve(path)), JoinParts(excl[k]))

\* is_excluded(path, exclude_paths), when resolve() returns.
IsExcluded(path, excl) ==
    \E k \in 1..Len(excl) :
        \/ Resolve(path) = excl[k]
        \/ IsPartsPrefix(excl[k], Resolve(path))

\* Variant: the candidate compared as spelled, without resolve().
IsOutputFile_Unresolved(path, out) == out # <<>> /\ path = out

\* Line 157: output_path and path.resolve() == output_path
IsOutputFile(path, out) == out # <<>> /\ Resolve(path) = out

(* ------------------------------------------------------------------ *)
(* dump_file                                                          *)
(* ------------------------------------------------------------------ *)

HashRuleWidth == 78
DashRuleWidth == 70

s_py == <<"p", "y">>
s_php == <<"p", "h", "p">>
SlashExts == { <<"j", "s">>, <<"t", "s">> }
MarkupExts ==
    { <<"m", "d">>, <<"h", "t", "m", "l">>, <<"x", "m", "l">>, <<"t", "x", "t">>,
      <<"j", "s", "o", "n">>, <<"y", "a", "m", "l">>, <<"y", "m", "l">>,
      <<"c", "o", "n", "f">> }
BlockExts ==
    { <<"j", "a", "v", "a">>, <<"g", "r", "o", "o", "v", "y">>, <<"c">>,
      <<"c", "p", "p">>, <<"h">>, <<"c", "s", "s">>, <<"o", "s", "s">> }
SkipExts ==
    { <<"p", "y", "c">>, <<"d", "b">>,
      <<"l", "o", "c", "k">>, <<"p", "n", "g">>, <<"j", "p", "g">>,
      <<"j", "p", "e", "g">>, <<"g", "i", "f">>, <<"s", "v", "g">>,
      <<"i", "c", "o">>, <<"d", "r", "a", "w", "i", "o">> }

\* The match statement's case, by lowercased extension.
StyleOf(ext) ==
    IF ext \in {s_py, s_php} THEN "hash"
    ELSE IF ext \in SlashExts THEN "slash"
    ELSE IF ext \in MarkupExts THEN "markup"
    ELSE IF ext \in BlockExts THEN "block"
    ELSE IF ext \in SkipExts THEN "skip"
    ELSE "unknown"

\* One printed line.  what: "rule", "file", "blank" or "text"; width is the
\* number of repeated rule characters, 0 on the other lines.
Line(what, style, path, width) ==
    [what |-> what, style |-> style, path |-> path, width |-> width]

Rule(style) ==
    Line("rule", style, <<>>, IF style = "hash" THEN HashRuleWidth ELSE DashRuleWidth)
FileLine(style, path) == Line("file", style, path, 0)
Blank == Line("blank", "none", <<>>, 0)
Text(path) == Line("text", "none", path, 0)

\* One line on stderr.  what: "unknown", "decode", "bytes", "error", "missing".
Diag(what, about) == [what |-> what, about |-> about]

\* Variant: the default case prints the same three lines as the typed cases.
Banner_ThreeLines(style, path) ==
    << Rule(style), FileLine(style, path), Rule(style) >>

\* The lines the match statement prints for a style that is not "skip".
Banner(style, path) ==
    IF style = "unknown"
    THEN << FileLine(style, path), Rule(style) >>
    ELSE << Rule(style), FileLine(style, path), Rule(style) >>

Outcome(out, err, raised) == [out |-> out, err |-> err, raised |-> raised]
Silent == Outcome(<<>>, <<>>, FALSE)

\* Any part of the path, the name included, starts with ".".
HasHiddenPart(path) == \E k \in 1..Len(path) : StartsWith(path[k], <<".">>)

\* Variant: no except clause around read_text(), the decode error propagates.
Render_DecodeRaises(path) ==
    LET ext   == ActualSuffix(path)
        style == StyleOf(ext)
        warn  == IF style = "unknown" THEN << Diag("unknown", ext) >> ELSE <<>>
        head  == Banner(style, path) \o << Blank >>
    IN  IF style = "skip" THEN Silent
        ELSE IF ContentOf(path) \in {"binary", "noperm"}
             THEN Outcome(head, warn, TRUE)
        ELSE Outcome(head \o << Text(path), Blank, Blank >>,
                     warn \o << Diag("bytes", path) >>, FALSE)

\* Lines 185-226, for a path that passed the three early returns.
Render(path) ==
    LET ext   == ActualSuffix(path)
        style == StyleOf(ext)
        warn  == IF style = "unknown" THEN << Diag("unknown", ext) >> ELSE <<>>
        head  == Banner(style, path) \o << Blank >>
    IN  IF style = "skip" THEN Silent
        ELSE IF ContentOf(path) = "binary"
             THEN Outcome(head, warn \o << Diag("decode", path) >>, FALSE)
        ELSE IF ContentOf(path) = "noperm"
             THEN Outcome(head, warn, TRUE)
        ELSE Outcome(head \o << Text(path), Blank, Blank >>,
                     warn \o << Diag("bytes", path) >>, FALSE)

\* Variant: only the file's own name is tested for a leading ".".
DumpFile_NameOnly(path) ==
    IF ~IsFile(path) THEN Silent
    ELSE IF StartsWith(Name(path), <<".">>) THEN Silent
    ELSE Render(path)

\* dump_file(path): what it prints to stdout and stderr, and whether it raises.
DumpFile(path) ==
    IF ~IsFile(path) THEN Silent
    ELSE IF StartsWith(Name(path), <<".">>) THEN Silent
    ELSE IF HasHiddenPart(path) THEN Silent
    ELSE Render(path)

(* ------------------------------------------------------------------ *)
(* Collection                                                         *)
(* ------------------------------------------------------------------ *)

\* Variant: the pattern matched without regard to case.
GlobMatches_IgnoreCase(name, suffix) ==
    EndsWith(Lower(name), Lower(<<".">> \o suffix))

\* fnmatch of a name against "*." + suffix, for a suffix of plain letters:
\* the name ends with "." + suffix, case-sensitively.
GlobMatches(name, suffix) == EndsWith(name, <<".">> \o suffix)

\* The candidate as rglob spells it: the root's parts, then the parts below it.
Below(src_path, entry) ==
    src_path \o SubSeq(entry.path, Len(Resolve(src_path)) + 1, Len(entry.path))

\* Everything on disk strictly below the directory.
Descendants(src_path) ==
    { e \in Disk : /\ Len(e.path) > Len(Resolve(src_path))
                   /\ IsPartsPrefix(Resolve(src_path), e.path) }

\* set(src_path.rglob("*"))
RglobAll(src_path) == { Below(src_path, e) : e \in Descendants(src_path) }

\* set(src_path.rglob(f"*.{suffix}"))
Rglob(src_path, suffix) ==
    { Below(src_path, e) :
        e \in { d \in Descendants(src_path) : GlobMatches(Name(d.path), suffix) } }

RECURSIVE ExtendAll(_, _)
ExtendAll(src_path, sufs) ==
    IF sufs = <<>> THEN <<>>
    ELSE SortPaths(Rglob(src_path, Head(sufs))) \o ExtendAll(src_path, Tail(sufs))

\* Variant: the per-suffix lists kept as extended, neither de-duplicated nor sorted.
CollectDir_Extended(src_path, sufs) ==
    IF sufs # <<>> THEN ExtendAll(src_path, sufs) ELSE SortPaths(RglobAll(src_path))

\* Lines 143-150: the candidates of a directory root.
CollectDir(src_path, sufs) ==
    IF sufs # <<>>
    THEN SortPaths(UNION { Rglob(src_path, sufs[k]) : k \in 1..Len(sufs) })
    ELSE SortPaths(RglobAll(src_path))

\* Lines 106-108: [s.strip() for s in args.suffix.split(",")]
ParseSuffixes(raw) ==
    IF raw = <<>> THEN <<>>
    ELSE [k \in 1..Len(Split(raw, ",")) |-> Strip(Split(raw, ",")[k])]

\* Lines 111-115
ParseExcludes(raws) == [k \in 1..Len(raws) |-> Resolve(PathOf(raws[k]))]

\* open("w") raises OSError when the parent is not an existing directory.
OpenFails(raw) ==
    LET at == Resolve(PathOf(raw))
    IN  ~IsDir(SubSeq(at, 1, Len(at) - 1))

(* ------------------------------------------------------------------ *)
(* main                                                               *)
(* ------------------------------------------------------------------ *)

Init ==
    /\ args \in [ srcs : SeqsUpTo(RootArgs, MaxRoots), suffix : SuffixArgs,
                  excludes : ExcludeArgs, output : OutputArgs ]
    /\ loop_raises = "unset"
    /\ pc = "start"
    /\ srcs = <<>>
    /\ suffixes = <<>>
    /\ exclude_paths = <<>>
    /\ output_path = <<>>
    /\ output_file = "none"
    /\ stdout = "orig"
    /\ created = FALSE
    /\ i = 0
    /\ files = <<>>
    /\ j = 0
    /\ sink = <<>>
    /\ diag = <<>>
    /\ hist = <<>>
    /\ opens = 0
    /\ redirected = FALSE
    /\ escaped = FALSE
    /\ exit_code = 0

\* A printed line with the candidate (root index, index in files) it belongs to.
Tagged(lines, r, c) == [k \in 1..Len(lines) |-> [line |-> lines[k], root |-> r, idx |-> c]]

\* A line printed to sys.stdout, with what sys.stdout is bound to at that time.
Printed(lines, r, c) ==
    [k \in 1..Len(lines) |-> [line |-> lines[k], root |-> r, idx |-> c, to |-> stdout]]

\* What happened to candidate c of root r.
Fate(r, c, path, fate) == [root |-> r, idx |-> c, path |-> path, fate |-> fate]

\* Lines 101-131: defaults, suffixes, excludes, and the output file.
Setup ==
    /\ pc = "start"
    /\ srcs' = IF args.srcs = <<>> THEN << <<".">> >> ELSE args.srcs
    /\ suffixes' = ParseSuffixes(args.suffix)
    /\ exclude_paths' = ParseExcludes(args.excludes)
    /\ output_path' = IF args.output # <<>> THEN Resolve(PathOf(args.output)) ELSE <<>>
    /\ \/ /\ args.output = <<>>
          /\ pc' = "root"
          /\ i' = 1
          /\ UNCHANGED << output_file, stdout, created, opens, redirected, diag,
                          exit_code >>
       \/ /\ args.output # <<>>
          /\ ~OpenFails(args.output)
          /\ output_file' = "open"
          /\ stdout' = "file"
          /\ created' = TRUE
          /\ opens' = opens + 1
          /\ redirected' = TRUE
          /\ pc' = "root"
          /\ i' = 1
          /\ UNCHANGED << diag, exit_code >>
       \/ /\ args.output # <<>>
          /\ OpenFails(args.output)
          /\ opens' = opens + 1
          /\ diag' = diag \o Tagged(<< Diag("open", PathOf(args.output)) >>, 0, 0)
          /\ exit_code' = 1
          /\ pc' = "done"
          /\ UNCHANGED << output_file, stdout, created, redirected, i >>
    /\ UNCHANGED << args, loop_raises, files, j, sink, hist, escaped >>

\* Where the for loop over args.srcs goes after root r.
AfterRoot(r) == IF r < Len(srcs) THEN "root" ELSE "finally"

\* Lines 135-153: classify the root and collect its candidates.
BeginRoot ==
    /\ pc = "root"
    /\ LET src_path == PathOf(srcs[i])
       IN  \/ /\ IsFile(src_path)
              /\ files' = << src_path >>
              /\ j' = 1
              /\ pc' = "files"
              /\ UNCHANGED << i, diag >>
           \/ /\ ~IsFile(src_path)
              /\ IsDir(src_path)
              /\ files' = CollectDir(src_path, suffixes)
              /\ IF files' # <<>>
                 THEN pc' = "files" /\ j' = 1 /\ i' = i
                 ELSE pc' = AfterRoot(i) /\ j' = 0 /\ i' = i + 1
              /\ UNCHANGED diag
           \/ /\ ~IsFile(src_path)
              /\ ~IsDir(src_path)
              /\ diag' = diag \o Tagged(<< Diag("missing", src_path) >>, i, 0)
              /\ files' = <<>>
              /\ j' = 0
              /\ i' = i + 1
              /\ pc' = AfterRoot(i)
    /\ UNCHANGED << args, loop_raises, srcs, suffixes, exclude_paths, output_path,
                    output_file, stdout, created, sink, hist, opens, redirected,
                    escaped, exit_code >>

\* The inner for loop moves to the next candidate, or the outer one to the next root.
Advance ==
    IF j < Len(files)
    THEN j' = j + 1 /\ UNCHANGED << i, pc, files >>
    ELSE j' = 0 /\ files' = <<>> /\ i' = i + 1 /\ pc' = AfterRoot(i)

\* Lines 155-167: one pass of the loop body.
Candidate ==
    /\ pc = "files"
    /\ \E behaviour \in ResolveBehaviours(files[j]) :
       LET path == files[j]
           res  == DumpFile(path)
       IN  /\ loop_raises' = behaviour
           /\ \/ /\ ResolveRaises(path, behaviour)
                 /\ hist' = Append(hist, Fate(i, j, path, "escaped"))
                 /\ pc' = "finally"
                 /\ escaped' = TRUE
                 /\ UNCHANGED << i, j, files, sink, diag >>
              \/ /\ ~ResolveRaises(path, behaviour)
                 /\ IsOutputFile(path, output_path)
                 /\ hist' = Append(hist, Fate(i, j, path, "output"))
                 /\ Advance
                 /\ UNCHANGED << sink, diag, escaped >>
              \/ /\ ~ResolveRaises(path, behaviour)
                 /\ ~IsOutputFile(path, output_path)
                 /\ IsExcluded(path, exclude_paths)
                 /\ hist' = Append(hist, Fate(i, j, path, "excluded"))
                 /\ Advance
                 /\ UNCHANGED << sink, diag, escaped >>
              \/ /\ ~ResolveRaises(path, behaviour)
                 /\ ~IsOutputFile(path, output_path)
                 /\ ~IsExcluded(path, exclude_paths)
                 /\ hist' = Append(hist, Fate(i, j, path, "dumped"))
                 /\ sink' = sink \o Printed(res.out, i, j)
                 /\ diag' = diag \o Tagged(res.err, i, j)
                                 \o (IF res.raised
                                     THEN Tagged(<< Diag("error", path) >>, i, j)
                                     ELSE <<>>)
                 /\ Advance
                 /\ UNCHANGED escaped
    /\ UNCHANGED << args, srcs, suffixes, exclude_paths, output_path,
                    output_file, stdout, created, opens, redirected, exit_code >>

\* Variant: the finally block closes the file but leaves sys.stdout bound to it.
Finally_NoRestore ==
    /\ pc = "finally"
    /\ output_file' = IF output_file = "open" THEN "closed" ELSE output_file
    /\ exit_code' = IF escaped THEN 1 ELSE 0
    /\ pc' = "done"
    /\ UNCHANGED << args, loop_raises, srcs, suffixes, exclude_paths, output_path,
                    stdout, created, i, files, j, sink, diag, hist, opens, redirected,
                    escaped >>

\* Lines 168-172, reached from the end of the loop and from an escaping exception.
Finally ==
    /\ pc = "finally"
    /\ IF output_file = "open"
       THEN stdout' = "orig" /\ output_file' = "closed"
       ELSE UNCHANGED << stdout, output_file >>
    /\ exit_code' = IF escaped THEN 1 ELSE 0
    /\ pc' = "done"
    /\ UNCHANGED << args, loop_raises, srcs, suffixes, exclude_paths, output_path,
                    created, i, files, j, sink, diag, hist, opens, redirected,
                    escaped >>

Next == Setup \/ BeginRoot \/ Candidate \/ Finally

Spec == Init /\ [][Next]_vars

(* ------------------------------------------------------------------ *)
(* Properties                                                         *)
(* ------------------------------------------------------------------ *)

Range(f) == { f[k] : k \in DOMAIN f }

\* The candidates that were passed to dump_file so far.
Dumped == { h \in Range(hist) : h.fate = "dumped" }

\* The lines candidate c of root r put on stdout and on stderr.
LinesOf(r, c) == SelectSeq(sink, LAMBDA e : e.root = r /\ e.idx = c)
DiagsOf(r, c) == SelectSeq(diag, LAMBDA e : e.root = r /\ e.idx = c)
OutOf(h) == [k \in 1..Len(LinesOf(h.root, h.idx)) |-> LinesOf(h.root, h.idx)[k].line]
ErrOf(h) == [k \in 1..Len(DiagsOf(h.root, h.idx)) |-> DiagsOf(h.root, h.idx)[k].line]

\* The absolute location of a candidate is an exclusion entry or lies below one.
UnderExclusion(path) ==
    \E x \in Range(exclude_paths) :
        LET at == Resolve(path)
        IN  \/ at = x
            \/ (Len(x) < Len(at) /\ SubSeq(at, 1, Len(x)) = x)

\* The printed location of a candidate merely begins with the text of an entry.
SharesStringPrefix(path) ==
    \E x \in Range(exclude_paths) :
        StartsWith(JoinParts(Resolve(path)), JoinParts(x))

\* C1: dump_file is never called on a candidate that equals an exclusion entry
\* or lies under one, from a file root or a directory root; and a candidate is
\* skipped as excluded only if it does: one that merely shares a string prefix
\* with an entry (bd2/x.py against -x bd) is not skipped.
C1_ExcludedNeverDumped ==
    \A h \in Range(hist) :
        /\ h.fate = "dumped" => ~UnderExclusion(h.path)
        /\ h.fate = "excluded" => UnderExclusion(h.path)

\* C1 witness: with an exclusion given, a directory root had one candidate
\* skipped below the entry and a string-prefix sibling passed to dump_file, and
\* a file root's candidate was skipped too.
C1_Witness ==
    /\ \E h \in Dumped : SharesStringPrefix(h.path) /\ ~UnderExclusion(h.path)
    /\ \E h \in Range(hist) :
          h.fate = "excluded" /\ IsDir(PathOf(srcs[h.root])) /\ Len(Resolve(h.path)) > 4
    /\ \E h \in Range(hist) : h.fate = "excluded" /\ IsFile(PathOf(srcs[h.root]))

\* The blocks on stdout that come from a directory root under a suffix filter.
FilteredBlocks ==
    { e \in Range(sink) :
        /\ e.line.what = "file"
        /\ suffixes # <<>>
        /\ IsDir(PathOf(srcs[e.root])) }

\* The extension as spelled in the name, without the dot.
SpelledExt(path) == SubSeq(Suffix(path), 2, Len(Suffix(path)))

SpelledHidden(path) == \E k \in 1..Len(path) : path[k] # <<>> /\ path[k][1] = "."

\* The candidate of a tagged line.
CandidateOf(e) == CHOOSE h \in Range(hist) : h.root = e.root /\ h.idx = e.idx

\* C3: a file whose name or any part of whose path starts with "." puts no
\* line on stdout and no diagnostic on stderr, whatever the filter and the
\* exclusions are.
C3_HiddenNeverPrinted ==
    /\ \A e \in Range(sink) : ~SpelledHidden(CandidateOf(e).path)
    /\ \A e \in Range(diag) : e.idx > 0 => ~SpelledHidden(CandidateOf(e).path)

\* C3 witness: dump_file was called on a regular file of a printable class
\* whose own name is not hidden but which lies in a hidden directory, and on
\* one whose name is hidden.
C3_Witness ==
    /\ \E h \in Dumped :
          /\ IsFile(h.path)
          /\ ~StartsWith(Name(h.path), <<".">>)
          /\ SpelledHidden(h.path)
          /\ StyleOf(ActualSuffix(h.path)) = "hash"
    /\ \E h \in Dumped : IsFile(h.path) /\ StartsWith(Name(h.path), <<".">>)

\* C4: with -o, the candidate that is the output file is never passed to
\* dump_file and has no block in the output, whichever root reaches it.
C4_OutputNeverDumped ==
    output_path # <<>> =>
        /\ \A h \in Dumped : Resolve(h.path) # output_path
        /\ \A e \in Range(sink) :
              e.line.what = "file" => Resolve(e.line.path) # output_path

\* C4 witness: with no -x at all, the output file was a candidate of a
\* directory root, spelled through "..", and of a file root, and was skipped.
C4_Witness ==
    /\ args.excludes = <<>>
    /\ \E h \in Range(hist) :
          h.fate = "output" /\ IsDir(PathOf(srcs[h.root])) /\ Head(h.path) = DotDot
    /\ \E h \in Range(hist) : h.fate = "output" /\ IsFile(PathOf(srcs[h.root]))

\* What root r contributes, read off the disk: lines 138-153.
CandidatesOf(r) ==
    LET src_path == PathOf(srcs[r])
    IN  IF IsFile(src_path) THEN << src_path >>
        ELSE IF IsDir(src_path) THEN CollectDir(src_path, suffixes)
        ELSE <<>>

\* The run got past opening its sink.
SinkReady == pc # "start" /\ (args.output = <<>> \/ output_file # "none")

\* C5: a non-fatal condition stays with the root or file it occurs on: once
\* the sink is open, the run ends with every candidate of every root gone
\* through the loop body in order, and with exit status 0.
C5_RunCompletes ==
    (pc = "done" /\ SinkReady) =>
        /\ exit_code = 0
        /\ ~escaped
        /\ \A r \in 1..Len(srcs) : \A c \in 1..Len(CandidatesOf(r)) :
              \E k \in 1..Len(hist) :
                  /\ hist[k].root = r /\ hist[k].idx = c
                  /\ hist[k].path = CandidatesOf(r)[c]
                  /\ hist[k].fate # "escaped"
                  /\ \A m \in 1..(k - 1) :
                        \/ hist[m].root < r
                        \/ (hist[m].root = r /\ hist[m].idx < c)

\* C6: the output file is opened at most once and before any root is looked
\* at; after a successful open every end of the run, the normal one and the
\* one by an exception leaving the loop, has the file closed and sys.stdout
\* bound to the original stream again; a failed open ends the run with a
\* non-zero status and sys.stdout was never redirected.
C6_SinkScoped ==
    /\ opens <= 1
    /\ pc = "start" => (opens = 0 /\ stdout = "orig")
    /\ pc # "start" =>
          /\ opens = (IF args.output # <<>> THEN 1 ELSE 0)
          /\ (hist # <<>> \/ i > 0) => SinkReady
    /\ stdout = "file" => (output_file = "open" /\ pc \in {"root", "files", "finally"})
    /\ (pc = "done" /\ output_file # "none") =>
          (output_file = "closed" /\ stdout = "orig")
    /\ (pc # "start" /\ ~SinkReady) =>
          /\ pc = "done"
          /\ exit_code # 0
          /\ ~redirected
          /\ stdout = "orig"
          /\ hist = <<>>

\* C6 witness: a run that opened its output file ended by an exception
\* leaving the loop, after it had printed into the file.
C6_Witness ==
    /\ pc = "done"
    /\ escaped
    /\ opens = 1
    /\ output_file = "closed"
    /\ \E e \in Range(sink) : e.to = "file"

\* A regular file dump_file gets as far as classifying, of a printing class.
Printable(h) ==
    /\ h.fate = "dumped"
    /\ IsFile(h.path)
    /\ ~SpelledHidden(h.path)
    /\ StyleOf(ActualSuffix(h.path)) # "skip"

\* The loop went on, or is about to go on, with the candidate after h.
NextIsProcessed(h) ==
    \/ h.idx = Len(CandidatesOf(h.root))
    \/ (pc = "files" /\ i = h.root /\ j = h.idx + 1)
    \/ \E g \in Range(hist) : g.root = h.root /\ g.idx = h.idx + 1

Count(seq, what) == Len(SelectSeq(seq, LAMBDA l : l.what = what))

\* The banner of the table for the class of h's extension: three lines for a
\* typed class, the "File:" line and a rule for an unknown extension.
BannerLines(h) ==
    LET style == StyleOf(ActualSuffix(h.path))
        width == IF style = "hash" THEN HashRuleWidth ELSE DashRuleWidth
        rule  == Line("rule", style, <<>>, width)
        name  == Line("file", style, h.path, 0)
    IN  IF style = "unknown" THEN << name, rule >> ELSE << rule, name, rule >>

\* C7: for a printable file whose bytes do not decode, dump_file prints the
\* banner and the blank line, reports "cannot read as text" on stderr, prints
\* no content and no byte count, and returns, so the loop goes on.
C7_DecodeFailure ==
    \A h \in Range(hist) :
        (Printable(h) /\ ContentOf(h.path) = "binary") =>
            /\ OutOf(h) = BannerLines(h) \o << Blank >>
            /\ Count(OutOf(h), "text") = 0
            /\ Count(ErrOf(h), "decode") = 1
            /\ Count(ErrOf(h), "bytes") = 0
            /\ Count(ErrOf(h), "error") = 0
            /\ NextIsProcessed(h)

\* C7 witness: an undecodable file was dumped and a later candidate of the
\* same root got its content printed.
C7_Witness ==
    \E h \in Range(hist) :
        /\ Printable(h)
        /\ ContentOf(h.path) = "binary"
        /\ \E e \in Range(sink) :
              e.root = h.root /\ e.idx > h.idx /\ e.line.what = "text"

\* A text file of an extension no case of the match statement names.
UnknownText(h) ==
    /\ Printable(h)
    /\ StyleOf(ActualSuffix(h.path)) = "unknown"
    /\ ContentOf(h.path) = "text"

\* C8 as stated: such a file gets a diagnostic naming the extension and a
\* banner of exactly one line, then the blank line, the content and two blank
\* lines.
C8_OneLineBanner ==
    \A h \in Range(hist) :
        UnknownText(h) =>
            /\ OutOf(h) = << FileLine("unknown", h.path), Blank,
                             Text(h.path), Blank, Blank >>
            /\ Diag("unknown", ActualSuffix(h.path)) \in Range(ErrOf(h))

\* C8 amended: such a file gets a diagnostic naming the extension and a banner
\* of exactly two lines, "File: <path>" and a rule of 70 dashes, then the blank
\* line, the content and two blank lines.
C8_TwoLineBanner ==
    \A h \in Range(hist) :
        UnknownText(h) =>
            /\ OutOf(h) = << FileLine("unknown", h.path),
                             Line("rule", "unknown", <<>>, DashRuleWidth),
                             Blank, Text(h.path), Blank, Blank >>
            /\ ErrOf(h) = << Diag("unknown", ActualSuffix(h.path)),
                             Diag("bytes", h.path) >>

\* C8 witness: a text file of an unknown extension was dumped.
C8_Witness == \E h \in Range(hist) : UnknownText(h) /\ Len(OutOf(h)) > 0

\* The "File:" lines on stdout, in the order printed.
Blocks == SelectSeq(sink, LAMBDA e : e.line.what = "file")

\* C9: all lines go to one sink; roots are written in argument order, and
\* within one root every path has at most one block, in ascending path order.
C9_CollectionOrder ==
    /\ \A k \in 1..(Len(sink) - 1) :
          /\ sink[k].root <= sink[k + 1].root
          /\ sink[k].to = sink[k + 1].to
    /\ \A k \in 1..(Len(Blocks) - 1) :
          Blocks[k].root = Blocks[k + 1].root =>
              PathLess(Blocks[k].line.path, Blocks[k + 1].line.path)

\* C9 witness: a directory root wrote two blocks, and a later root wrote a
\* block whose path sorts before a block of the earlier root.
C9_Witness ==
    /\ \E a, b \in 1..Len(Blocks) :
          /\ a < b
          /\ Blocks[a].root = Blocks[b].root
          /\ IsDir(PathOf(srcs[Blocks[a].root]))
    /\ \E a, b \in 1..Len(Blocks) :
          /\ a < b
          /\ Blocks[a].root < Blocks[b].root
          /\ PathLess(Blocks[b].line.path, Blocks[a].line.path)

\* The root, as typed, has a component that starts with "." and is not ".".
RootSpelledHidden(raw) ==
    \E comp \in Range(Split(raw, "/")) :
        comp # <<>> /\ comp[1] = "." /\ comp # <<".">>

\* The files the root "." must show when no filter is given: regular text
\* files under the working directory, of a printing class, with no hidden
\* part below it, neither excluded nor the output file.
ShownFromCwd ==
    { e \in Disk :
        /\ e.kind = "file"
        /\ e.content = "text"
        /\ Len(e.path) > Len(Cwd)
        /\ SubSeq(e.path, 1, Len(Cwd)) = Cwd
        /\ ~SpelledHidden(SubSeq(e.path, Len(Cwd) + 1, Len(e.path)))
        /\ StyleOf(ActualSuffix(e.path)) # "skip"
        /\ ~UnderExclusion(e.path)
        /\ e.path # output_path }

\* C10: the hidden test reads the candidate as spelled from the root: a root
\* typed with a component that starts with "." ("..", ".h/c.py") writes nothing
\* to the sink, while the root "." writes a block for each of its shown files.
C10_HiddenBySpelling ==
    /\ \A e \in Range(sink) : ~RootSpelledHidden(srcs[e.root])
    /\ \A r \in 1..Len(srcs) :
          (srcs[r] = <<".">> /\ suffixes = <<>> /\ i > r) =>
              \A d \in ShownFromCwd :
                  \E e \in Range(sink) :
                      /\ e.root = r
                      /\ e.line.what = "file"
                      /\ Resolve(e.line.path) = d.path

\* C10 witness: in one run the root ".." had a regular, otherwise printable
\* file passed to dump_file and wrote nothing, and the root "." wrote blocks.
C10_Witness ==
    /\ \E h \in Dumped :
          /\ srcs[h.root] = <<".", ".">>
          /\ IsFile(h.path)
          /\ StyleOf(ActualSuffix(h.path)) = "hash"
          /\ ~SpelledHidden(Tail(h.path))
          /\ OutOf(h) = <<>>
    /\ \E r \in 1..Len(srcs) :
          /\ srcs[r] = <<".">>
          /\ suffixes = <<>>
          /\ pc = "done"
          /\ \E e \in Range(sink) : e.root = r

====
